---- MODULE Spec2Model ----
(***************************************************************************)
(* Model of devdash-config (src/src/index.ts): parseConfig,                *)
(* validateConfig, exportAsJSON and mergeConfigs.                          *)
(*                                                                         *)
(* JavaScript values are tagged records.  A JavaScript string is a         *)
(* sequence of one-character strings, so that parsing and formatting work  *)
(* on characters.  An object is a function from keys (strings) to values;  *)
(* a key that is not in the domain is an absent property.                  *)
(***************************************************************************)
EXTENDS Integers, Sequences, FiniteSets, TLC

VARIABLES pc, arg, text, ret

vars == <<pc, arg, text, ret>>

(***************************************************************************)
(* Bounds of the explored inputs.                                          *)
(***************************************************************************)
MaxComps == 2
MaxSources == 1

(***************************************************************************)
(* JavaScript values.                                                      *)
(***************************************************************************)
Undef == [t |-> "undefined"]
Null == [t |-> "null"]
Bool(b) == [t |-> "boolean", bool |-> b]
Num(n) == [t |-> "number", num |-> n]
Str(s) == [t |-> "string", str |-> s]
Arr(a) == [t |-> "array", arr |-> a]
Obj(o) == [t |-> "object", obj |-> o]

EmptyObj == Obj(<<>>)

\* ToBoolean: what `!x`, `x || y` and `if (x)` test.
Truthy(x) ==
  CASE x.t = "undefined" -> FALSE
    [] x.t = "null" -> FALSE
    [] x.t = "boolean" -> x.bool
    [] x.t = "number" -> x.num # 0
    [] x.t = "string" -> Len(x.str) > 0
    [] OTHER -> TRUE

\* typeof x === 'object' holds of null, of arrays and of plain objects.
TypeofObject(x) == x.t \in {"null", "array", "object"}

IsArray(x) == x.t = "array"

\* Reading a property of null or undefined throws a TypeError.
Nullish(x) == x.t \in {"undefined", "null"}

\* x.k for a non-nullish x and a key k that is not an array index or length.
Get(x, k) == IF x.t = "object" /\ k \in DOMAIN x.obj THEN x.obj[k] ELSE Undef

Has(x, k) == x.t = "object" /\ k \in DOMAIN x.obj

(***************************************************************************)
(* Property names and string constants of the source.                      *)
(***************************************************************************)
K_dashboard == <<"d","a","s","h","b","o","a","r","d">>
K_dataSources == <<"d","a","t","a","S","o","u","r","c","e","s">>
K_settings == <<"s","e","t","t","i","n","g","s">>
K_title == <<"t","i","t","l","e">>
K_layout == <<"l","a","y","o","u","t">>
K_theme == <<"t","h","e","m","e">>
K_columns == <<"c","o","l","u","m","n","s">>
K_components == <<"c","o","m","p","o","n","e","n","t","s">>
K_type == <<"t","y","p","e">>
K_config == <<"c","o","n","f","i","g">>
K_id == <<"i","d">>

COMPONENT_TYPES ==
  << <<"l","i","n","e","-","c","h","a","r","t">>,
     <<"b","a","r","-","c","h","a","r","t">>,
     <<"p","i","e","-","c","h","a","r","t">>,
     <<"a","r","e","a","-","c","h","a","r","t">>,
     <<"r","a","d","a","r","-","c","h","a","r","t">>,
     <<"t","r","e","e","m","a","p","-","c","h","a","r","t">>,
     <<"s","c","a","t","t","e","r","-","c","h","a","r","t">>,
     <<"t","a","b","l","e">>,
     <<"s","t","a","t">>,
     <<"t","e","x","t">>,
     <<"c","a","r","d">>,
     <<"f","o","r","m">>,
     <<"b","u","t","t","o","n">> >>

DATA_SOURCE_TYPES ==
  << <<"r","e","s","t">>,
     <<"g","r","a","p","h","q","l">>,
     <<"m","o","c","k">>,
     <<"w","e","b","s","o","c","k","e","t">> >>

LAYOUTS ==
  << <<"g","r","i","d">>, <<"f","l","e","x">>, <<"s","t","a","c","k">> >>

\* Array.prototype.includes on an array of strings: strict equality, so only
\* a string value can be included.
Includes(list, x) ==
  x.t = "string" /\ \E i \in 1..Len(list) : list[i] = x.str

(***************************************************************************)
(* String(x), as a template literal `${x}` computes it.                    *)
(***************************************************************************)
Digit(d) == <<"0","1","2","3","4","5","6","7","8","9">>[d + 1]

RECURSIVE NatToChars(_)
NatToChars(n) ==
  IF n < 10 THEN <<Digit(n)>> ELSE Append(NatToChars(n \div 10), Digit(n % 10))

NumToChars(n) == IF n < 0 THEN <<"-">> \o NatToChars(-n) ELSE NatToChars(n)

RECURSIVE StringOf(_)
RECURSIVE JoinComma(_, _)
JoinComma(a, i) ==
  IF i > Len(a) THEN <<>>
  ELSE (IF i > 1 THEN <<",">> ELSE <<>>)
       \o (IF Nullish(a[i]) THEN <<>> ELSE StringOf(a[i]))
       \o JoinComma(a, i + 1)

StringOf(x) ==
  CASE x.t = "undefined" -> <<"undefined">>
    [] x.t = "null" -> <<"null">>
    [] x.t = "boolean" -> IF x.bool THEN <<"true">> ELSE <<"false">>
    [] x.t = "number" -> NumToChars(x.num)
    [] x.t = "string" -> x.str
    [] x.t = "array" -> JoinComma(x.arr, 1)
    [] OTHER -> <<"[object Object]">>

(***************************************************************************)
(* validateConfig.  A call either returns its errors or throws.            *)
(***************************************************************************)
Threw == [threw |-> TRUE]
Returned(v) == [threw |-> FALSE, value |-> v]

Error(path, message) == [path |-> path, message |-> message, severity |-> "error"]

\* The callback of dashboard.components.forEach, for element comp at index.
ComponentErrors(comp, index) ==
  LET type == Get(comp, K_type) IN
  IF ~Truthy(type)
    THEN << Error(<<"/dashboard/components/">> \o NumToChars(index) \o <<"/type">>,
                  <<"Component type is required">>) >>
  ELSE IF ~Includes(COMPONENT_TYPES, type)
    THEN << Error(<<"/dashboard/components/">> \o NumToChars(index) \o <<"/type">>,
                  <<"Invalid component type: ">> \o StringOf(type)) >>
  ELSE <<>>

\* The callback of cfg.dataSources.forEach, for element ds at index.
DataSourceErrors(ds, index) ==
  LET type == Get(ds, K_type) IN
  IF ~Truthy(type)
    THEN << Error(<<"/dataSources/">> \o NumToChars(index) \o <<"/type">>,
                  <<"DataSource type is required">>) >>
  ELSE IF ~Includes(DATA_SOURCE_TYPES, type)
    THEN << Error(<<"/dataSources/">> \o NumToChars(index) \o <<"/type">>,
                  <<"Invalid data source type: ">> \o StringOf(type)) >>
  ELSE <<>>

\* forEach over the elements from position i on (index i - 1 in the source).
RECURSIVE ForEachComponent(_, _)
ForEachComponent(a, i) ==
  IF i > Len(a) THEN <<>>
  ELSE ComponentErrors(a[i], i - 1) \o ForEachComponent(a, i + 1)

RECURSIVE ForEachDataSource(_, _)
ForEachDataSource(a, i) ==
  IF i > Len(a) THEN <<>>
  ELSE DataSourceErrors(a[i], i - 1) \o ForEachDataSource(a, i + 1)

\* compObj.type and ds.type throw on a null or undefined element.
ForEachThrows(a) == \E i \in 1..Len(a) : Nullish(a[i])

TitleErrors(dashboard) ==
  LET title == Get(dashboard, K_title) IN
  IF ~Truthy(title)
    THEN << Error(<<"/dashboard/title">>, <<"Title is required">>) >>
  ELSE IF title.t # "string"
    THEN << Error(<<"/dashboard/title">>, <<"Title must be a string">>) >>
  ELSE <<>>

\* LAYOUTS.join(', ')
RECURSIVE JoinStrings(_, _)
JoinStrings(list, i) ==
  IF i > Len(list) THEN <<>>
  ELSE (IF i > 1 THEN <<",", " ">> ELSE <<>>) \o list[i] \o JoinStrings(list, i + 1)

LayoutErrors(dashboard) ==
  LET layout == Get(dashboard, K_layout) IN
  IF Truthy(layout) /\ ~Includes(LAYOUTS, layout)
    THEN << Error(<<"/dashboard/layout">>,
                  <<"Layout must be one of: ">> \o JoinStrings(LAYOUTS, 1)) >>
  ELSE <<>>

ComponentsErrors(dashboard) ==
  LET components == Get(dashboard, K_components) IN
  IF ~Truthy(components)
    THEN << Error(<<"/dashboard/components">>, <<"Components are required">>) >>
  ELSE IF ~IsArray(components)
    THEN << Error(<<"/dashboard/components">>, <<"Components must be an array">>) >>
  ELSE ForEachComponent(components.arr, 1)

DataSourcesErrors(cfg) ==
  LET dataSources == Get(cfg, K_dataSources) IN
  IF ~Truthy(dataSources) THEN <<>>
  ELSE IF ~IsArray(dataSources)
    THEN << Error(<<"/dataSources">>, <<"DataSources must be an array">>) >>
  ELSE ForEachDataSource(dataSources.arr, 1)

validateConfig(config) ==
  IF ~Truthy(config) \/ ~TypeofObject(config)
    THEN Returned(<< Error(<<"/">>, <<"Config must be an object">>) >>)
  ELSE IF ~Truthy(Get(config, K_dashboard))
    THEN Returned(<< Error(<<"/dashboard">>, <<"Dashboard is required">>) >>)
  ELSE IF ~TypeofObject(Get(config, K_dashboard))
    THEN Returned(<< Error(<<"/dashboard">>, <<"Dashboard must be an object">>) >>)
  ELSE
    LET dashboard == Get(config, K_dashboard)
        components == Get(dashboard, K_components)
        dataSources == Get(config, K_dataSources)
    IN  IF IsArray(components) /\ ForEachThrows(components.arr)
          THEN Threw
        ELSE IF IsArray(dataSources) /\ ForEachThrows(dataSources.arr)
          THEN Threw
        ELSE Returned(TitleErrors(dashboard) \o LayoutErrors(dashboard)
                      \o ComponentsErrors(dashboard) \o DataSourcesErrors(config))

(***************************************************************************)
(* Inputs of validateConfig: any value, well-formed or not.                *)
(***************************************************************************)
SeqsUpTo(S, n) == UNION {[1..k -> S] : k \in 0..n}

S_table == <<"t","a","b","l","e">>
S_rest == <<"r","e","s","t">>
S_grid == <<"g","r","i","d">>
S_bogus == <<"b","o","g","u","s","-","c","h","a","r","t">>

\* Elements of dashboard.components and of dataSources.
Elements ==
  { Null,
    EmptyObj,
    Obj(K_type :> Str(S_table) @@ K_config :> EmptyObj),
    Obj(K_type :> Str(S_bogus) @@ K_config :> EmptyObj),
    Obj(K_type :> Num(0)),
    Obj(K_type :> Str(S_rest)) }

Absent == [t |-> "absent"]

\* The object with the given properties, leaving out the absent ones.
MkObj(props) == Obj([k \in {j \in DOMAIN props : props[j] # Absent} |-> props[k]])

TitleValues ==
  {Absent, Null, Bool(FALSE), Num(0), Num(5), Str(<<>>), Str(<<"A">>), EmptyObj}

LayoutValues == {Absent, Str(S_grid), Str(S_bogus)}

ComponentsValues ==
  {Absent, Null, Str(<<"x">>), EmptyObj}
    \cup {Arr(a) : a \in SeqsUpTo(Elements, MaxComps)}

DataSourcesValues ==
  {Absent, Str(<<"x">>), EmptyObj}
    \cup {Arr(a) : a \in SeqsUpTo(Elements, MaxSources)}

DashboardValues ==
  {Absent, Null, Bool(FALSE), Num(0), Num(5), Str(<<>>), Str(<<"x">>), Arr(<<>>)}
    \cup { MkObj(K_title :> ti @@ K_layout :> la @@ K_components :> co) :
             ti \in TitleValues, la \in LayoutValues, co \in ComponentsValues }

UnknownValues ==
  {Undef, Null, Bool(FALSE), Bool(TRUE), Num(0), Num(5), Str(<<>>), Str(<<"x">>),
   Arr(<<>>), Arr(<<EmptyObj>>)}
    \cup { MkObj(K_dashboard :> da @@ K_dataSources :> ds) :
             da \in DashboardValues, ds \in DataSourcesValues }

NoRet == [pending |-> TRUE]
NoArg == [t |-> "none"]

InitValidate ==
  /\ pc = "validate"
  /\ arg \in UnknownValues
  /\ text = <<>>
  /\ ret = NoRet

ValidateConfig ==
  /\ pc = "validate"
  /\ ret' = validateConfig(arg)
  /\ pc' = "done"
  /\ UNCHANGED <<arg, text>>

NextValidate == ValidateConfig

SpecValidate == InitValidate /\ [][NextValidate]_vars

(***************************************************************************)
(* Properties of validateConfig.                                           *)
(***************************************************************************)
Validated == pc = "done"

\* The errors of a result whose path is p, in the order of emission.
ErrorsAt(errors, p) == SelectSeq(errors, LAMBDA e : e.path = p)

\* C1: validateConfig never raises: for every input, elements of components
\* or dataSources that are null included, the call returns its errors.
C1_NeverRaises == Validated => ~ret.threw

\* C6: when the root is not an object (null, undefined, a string, a number, a
\* boolean or a sequence), the result is exactly one error, at path `/`.
C6_RootShortCircuit ==
  (Validated /\ arg.t # "object")
    => /\ ~ret.threw
       /\ Len(ret.value) = 1
       /\ ret.value[1].path = <<"/">>

\* C7: when the root is an object whose dashboard is absent or is not an
\* object (null, a string, a number, a boolean or a sequence), the result is
\* exactly one error, at path `/dashboard`.
C7_DashboardShortCircuit ==
  (Validated /\ arg.t = "object" /\ Get(arg, K_dashboard).t # "object")
    => /\ ~ret.threw
       /\ Len(ret.value) = 1
       /\ ret.value[1].path = <<"/dashboard">>

\* The errors the component-kind rule requires for the elements of a from
\* position i on: one "required" error for a missing type, one error naming
\* the value for a type outside the closed set, none for a type inside it.
RECURSIVE KindErrors(_, _, _, _, _, _)
KindErrors(a, i, kinds, prefix, required, invalid) ==
  IF i > Len(a) THEN <<>>
  ELSE LET p == prefix \o NumToChars(i - 1) \o <<"/type">>
           e == IF ~Has(a[i], K_type) THEN << Error(p, required) >>
                ELSE IF ~Includes(kinds, a[i].obj[K_type])
                  THEN << Error(p, invalid \o StringOf(a[i].obj[K_type])) >>
                ELSE <<>>
       IN  e \o KindErrors(a, i + 1, kinds, prefix, required, invalid)

IsTypePath(p, prefix) == Len(p) = 3 /\ p[1] = prefix /\ p[3] = "/type"

AllObjects(a) == \A i \in 1..Len(a) : a[i].t = "object"

\* C8: for an object dashboard whose components are a sequence of objects,
\* the errors at the `/dashboard/components/{i}/type` paths are, in ascending
\* order of i, one "required" error per element without a type and one error
\* naming the value per element whose type is outside the 13 kinds; the same
\* holds of dataSources and the 4 data-source kinds.
C8_KindValidation ==
  (Validated /\ arg.t = "object" /\ Get(arg, K_dashboard).t = "object" /\ ~ret.threw)
    => LET components == Get(Get(arg, K_dashboard), K_components)
           dataSources == Get(arg, K_dataSources)
       IN  /\ (IsArray(components) /\ AllObjects(components.arr))
                => SelectSeq(ret.value,
                             LAMBDA e : IsTypePath(e.path, "/dashboard/components/"))
                   = KindErrors(components.arr, 1, COMPONENT_TYPES,
                                <<"/dashboard/components/">>,
                                <<"Component type is required">>,
                                <<"Invalid component type: ">>)
           /\ (IsArray(dataSources) /\ AllObjects(dataSources.arr))
                => SelectSeq(ret.value,
                             LAMBDA e : IsTypePath(e.path, "/dataSources/"))
                   = KindErrors(dataSources.arr, 1, DATA_SOURCE_TYPES,
                                <<"/dataSources/">>,
                                <<"DataSource type is required">>,
                                <<"Invalid data source type: ">>)

\* C9: for an object dashboard, the errors at `/dashboard/title` are one
\* "required" error when the title is missing, one "must be a string" error
\* when it is present and not a string, and none when it is a string.
C9_TitleRule ==
  (Validated /\ arg.t = "object" /\ Get(arg, K_dashboard).t = "object" /\ ~ret.threw)
    => LET dashboard == Get(arg, K_dashboard) IN
       ErrorsAt(ret.value, <<"/dashboard/title">>)
         = IF ~Has(dashboard, K_title)
             THEN << Error(<<"/dashboard/title">>, <<"Title is required">>) >>
           ELSE IF dashboard.obj[K_title].t # "string"
             THEN << Error(<<"/dashboard/title">>, <<"Title must be a string">>) >>
           ELSE <<>>

(***************************************************************************)
(* JSON.stringify(value, null, indent), on characters.  The object model   *)
(* keeps no insertion order: the members are written in a fixed order of   *)
(* the keys.                                                               *)
(***************************************************************************)
QuoteChar == "\""
Backslash == "\\"

\* A variant that leaves the backslash as it is.
EscapeChar_NoBackslash(c) ==
  CASE c = QuoteChar -> <<Backslash, QuoteChar>>
    [] c = "\n" -> <<Backslash, "n">>
    [] c = "\t" -> <<Backslash, "t">>
    [] c = "\r" -> <<Backslash, "r">>
    [] OTHER -> <<c>>

\* The escape JSON.stringify writes for one character of a string.
EscapeChar(c) ==
  CASE c = QuoteChar -> <<Backslash, QuoteChar>>
    [] c = Backslash -> <<Backslash, Backslash>>
    [] c = "\n" -> <<Backslash, "n">>
    [] c = "\t" -> <<Backslash, "t">>
    [] c = "\r" -> <<Backslash, "r">>
    [] OTHER -> <<c>>

RECURSIVE EscapeChars(_, _)
EscapeChars(s, i) ==
  IF i > Len(s) THEN <<>> ELSE EscapeChar(s[i]) \o EscapeChars(s, i + 1)

QuoteJSONString(s) == <<QuoteChar>> \o EscapeChars(s, 1) \o <<QuoteChar>>

RECURSIVE KeysOf(_)
KeysOf(S) ==
  IF S = {} THEN <<>>
  ELSE LET k == CHOOSE k \in S : TRUE IN <<k>> \o KeysOf(S \ {k})

\* The parts of a non-empty object or array, between its brackets.
RECURSIVE JoinParts(_, _, _)
JoinParts(parts, i, sep) ==
  IF i > Len(parts) THEN <<>>
  ELSE (IF i > 1 THEN sep ELSE <<>>) \o parts[i] \o JoinParts(parts, i + 1, sep)

Wrap(open, close, parts, gap, indent) ==
  IF Len(parts) = 0 THEN <<open, close>>
  ELSE IF Len(gap) = 0
    THEN <<open>> \o JoinParts(parts, 1, <<",">>) \o <<close>>
  ELSE <<open, "\n">> \o indent \o gap
       \o JoinParts(parts, 1, <<",", "\n">> \o indent \o gap)
       \o <<"\n">> \o indent \o <<close>>

RECURSIVE SerializeJSONProperty(_, _, _)
RECURSIVE SerializeMembers(_, _, _, _, _)
RECURSIVE SerializeElements(_, _, _, _)

\* The members of object o for the keys from position i on; a member whose
\* value is undefined is left out.
SerializeMembers(o, keys, i, gap, indent) ==
  IF i > Len(keys) THEN <<>>
  ELSE LET k == keys[i] IN
       (IF o[k].t = "undefined" THEN <<>>
        ELSE << QuoteJSONString(k) \o <<":">>
                \o (IF Len(gap) = 0 THEN <<>> ELSE <<" ">>)
                \o SerializeJSONProperty(o[k], gap, indent) >>)
       \o SerializeMembers(o, keys, i + 1, gap, indent)

\* The elements of array a from position i on; undefined is written null.
SerializeElements(a, i, gap, indent) ==
  IF i > Len(a) THEN <<>>
  ELSE << IF a[i].t = "undefined" THEN <<"n","u","l","l">>
          ELSE SerializeJSONProperty(a[i], gap, indent) >>
       \o SerializeElements(a, i + 1, gap, indent)

SerializeJSONProperty(x, gap, indent) ==
  CASE x.t = "null" -> <<"n","u","l","l">>
    [] x.t = "boolean" -> IF x.bool THEN <<"t","r","u","e">> ELSE <<"f","a","l","s","e">>
    [] x.t = "number" -> NumToChars(x.num)
    [] x.t = "string" -> QuoteJSONString(x.str)
    [] x.t = "array" ->
         Wrap("[", "]", SerializeElements(x.arr, 1, gap, indent \o gap), gap, indent)
    [] x.t = "object" ->
         Wrap("{", "}",
              SerializeMembers(x.obj, KeysOf(DOMAIN x.obj), 1, gap, indent \o gap),
              gap, indent)

JSONStringify(x, gap) == SerializeJSONProperty(x, gap, <<>>)

exportAsJSON(config, pretty) ==
  IF pretty THEN JSONStringify(config, <<" ", " ">>) ELSE JSONStringify(config, <<>>)

(***************************************************************************)
(* JSON.parse, on characters: a recursive-descent reading of the JSON      *)
(* grammar.  Numbers are integers; \u escapes are not modelled.            *)
(***************************************************************************)
Fail == [ok |-> FALSE]
Ok(v, next) == [ok |-> TRUE, val |-> v, pos |-> next]

JSONWhitespace == {" ", "\n", "\t", "\r"}
Digits == {"0","1","2","3","4","5","6","7","8","9"}
DigitValue(c) == CHOOSE d \in 0..9 : Digit(d) = c

RECURSIVE SkipWs(_, _)
SkipWs(s, i) ==
  IF i <= Len(s) /\ s[i] \in JSONWhitespace THEN SkipWs(s, i + 1) ELSE i

\* Does s hold the characters of word from position i on?
StartsWithAt(s, i, word) ==
  /\ i + Len(word) - 1 <= Len(s)
  /\ \A j \in 1..Len(word) : s[i + j - 1] = word[j]

RECURSIVE ParseDigits(_, _, _)
ParseDigits(s, i, n) ==
  IF i <= Len(s) /\ s[i] \in Digits
    THEN ParseDigits(s, i + 1, 10 * n + DigitValue(s[i]))
  ELSE Ok(n, i)

\* int: "0" or a digit 1-9 followed by digits; no leading zero.
ParseNat(s, i) ==
  IF i > Len(s) \/ s[i] \notin Digits THEN Fail
  ELSE IF s[i] = "0" THEN Ok(0, i + 1)
  ELSE ParseDigits(s, i, 0)

ParseNumber(s, i) ==
  IF s[i] = "-"
    THEN LET r == ParseNat(s, i + 1) IN
         IF r.ok THEN Ok(Num(-r.val), r.pos) ELSE Fail
  ELSE LET r == ParseNat(s, i) IN
       IF r.ok THEN Ok(Num(r.val), r.pos) ELSE Fail

\* The character an escape \c stands for.
Unescape(c) ==
  CASE c = "n" -> "\n"
    [] c = "t" -> "\t"
    [] c = "r" -> "\r"
    [] OTHER -> c

\* The characters of a string from position i on, after its opening quote.
RECURSIVE ParseString(_, _, _)
ParseString(s, i, acc) ==
  IF i > Len(s) THEN Fail
  ELSE IF s[i] = QuoteChar THEN Ok(acc, i + 1)
  ELSE IF s[i] \in {"\n", "\t", "\r"} THEN Fail
  ELSE IF s[i] = Backslash
    THEN IF i + 1 <= Len(s) /\ s[i + 1] \in {QuoteChar, Backslash, "/", "n", "t", "r"}
           THEN ParseString(s, i + 2, Append(acc, Unescape(s[i + 1])))
         ELSE Fail
  ELSE ParseString(s, i + 1, Append(acc, s[i]))

RECURSIVE ParseValue(_, _)
RECURSIVE ParseElements(_, _, _)
RECURSIVE ParseMembers(_, _, _)

\* The elements of an array from position i on, which starts an element.
ParseElements(s, i, acc) ==
  LET r == ParseValue(s, SkipWs(s, i)) IN
  IF ~r.ok THEN Fail
  ELSE LET j == SkipWs(s, r.pos) IN
       IF j > Len(s) THEN Fail
       ELSE IF s[j] = "," THEN ParseElements(s, j + 1, Append(acc, r.val))
       ELSE IF s[j] = "]" THEN Ok(Arr(Append(acc, r.val)), j + 1)
       ELSE Fail

\* The members of an object from position i on, which starts a member; a
\* later member replaces an earlier one with the same key.
ParseMembers(s, i, acc) ==
  LET j == SkipWs(s, i) IN
  IF j > Len(s) \/ s[j] # QuoteChar THEN Fail
  ELSE LET k == ParseString(s, j + 1, <<>>) IN
       IF ~k.ok THEN Fail
       ELSE LET c == SkipWs(s, k.pos) IN
            IF c > Len(s) \/ s[c] # ":" THEN Fail
            ELSE LET r == ParseValue(s, SkipWs(s, c + 1)) IN
                 IF ~r.ok THEN Fail
                 ELSE LET e == SkipWs(s, r.pos)
                          o == (k.val :> r.val) @@ acc
                      IN  IF e > Len(s) THEN Fail
                          ELSE IF s[e] = "," THEN ParseMembers(s, e + 1, o)
                          ELSE IF s[e] = "}" THEN Ok(Obj(o), e + 1)
                          ELSE Fail

\* The value that starts at position i (whitespace already skipped).
ParseValue(s, i) ==
  IF i > Len(s) THEN Fail
  ELSE IF s[i] = "{"
    THEN LET j == SkipWs(s, i + 1) IN
         IF j <= Len(s) /\ s[j] = "}" THEN Ok(EmptyObj, j + 1)
         ELSE ParseMembers(s, i + 1, <<>>)
  ELSE IF s[i] = "["
    THEN LET j == SkipWs(s, i + 1) IN
         IF j <= Len(s) /\ s[j] = "]" THEN Ok(Arr(<<>>), j + 1)
         ELSE ParseElements(s, i + 1, <<>>)
  ELSE IF s[i] = QuoteChar
    THEN LET r == ParseString(s, i + 1, <<>>) IN
         IF r.ok THEN Ok(Str(r.val), r.pos) ELSE Fail
  ELSE IF StartsWithAt(s, i, <<"t","r","u","e">>) THEN Ok(Bool(TRUE), i + 4)
  ELSE IF StartsWithAt(s, i, <<"f","a","l","s","e">>) THEN Ok(Bool(FALSE), i + 5)
  ELSE IF StartsWithAt(s, i, <<"n","u","l","l">>) THEN Ok(Null, i + 4)
  ELSE IF s[i] = "-" \/ s[i] \in Digits THEN ParseNumber(s, i)
  ELSE Fail

\* JSON.parse(input): the value, or a failure where JSON.parse throws.
JSONParse(input) ==
  LET r == ParseValue(input, SkipWs(input, 1)) IN
  IF r.ok /\ SkipWs(input, r.pos) = Len(input) + 1 THEN r ELSE Fail

(***************************************************************************)
(* parseConfig: JSON.parse first, then the line scan of the catch block.   *)
(***************************************************************************)
\* input.split('\n'): the lines of s from position i on, cur being the line
\* read so far.
RECURSIVE Split(_, _, _)
Split(s, i, cur) ==
  IF i > Len(s) THEN <<cur>>
  ELSE IF s[i] = "\n" THEN <<cur>> \o Split(s, i + 1, <<>>)
  ELSE Split(s, i + 1, Append(cur, s[i]))

\* The characters String.prototype.trim removes and \s matches.
WhiteSpace == {" ", "\t", "\n", "\r", "\f"}

RECURSIVE TrimStart(_)
TrimStart(s) ==
  IF Len(s) > 0 /\ s[1] \in WhiteSpace THEN TrimStart(Tail(s)) ELSE s

RECURSIVE TrimEnd(_)
TrimEnd(s) ==
  IF Len(s) > 0 /\ s[Len(s)] \in WhiteSpace
    THEN TrimEnd(SubSeq(s, 1, Len(s) - 1))
  ELSE s

Trim(s) == TrimEnd(TrimStart(s))

\* The characters \w matches.
WordChars ==
  {"a","b","c","d","e","f","g","h","i","j","k","l","m","n","o","p","q","r","s",
   "t","u","v","w","x","y","z","A","B","C","D","E","F","G","H","I","J","K","L",
   "M","N","O","P","Q","R","S","T","U","V","W","X","Y","Z","0","1","2","3","4",
   "5","6","7","8","9","_"}

\* The first position from i on that holds no word character.
RECURSIVE WordEnd(_, _)
WordEnd(s, i) ==
  IF i <= Len(s) /\ s[i] \in WordChars THEN WordEnd(s, i + 1) ELSE i

RECURSIVE SkipSpace(_, _)
SkipSpace(s, i) ==
  IF i <= Len(s) /\ s[i] \in WhiteSpace THEN SkipSpace(s, i + 1) ELSE i

NoMatch == [matched |-> FALSE]

\* trimmed.match(/^(\w+):\s*(.*)$/): groups 1 and 2.  The dot matches no
\* line terminator, so a carriage return in the rest of the line fails it.
Match(trimmed) ==
  LET j == WordEnd(trimmed, 1) IN
  IF j = 1 \/ j > Len(trimmed) \/ trimmed[j] # ":" THEN NoMatch
  ELSE LET rest == SubSeq(trimmed, SkipSpace(trimmed, j + 1), Len(trimmed)) IN
       IF \E n \in 1..Len(rest) : rest[n] = "\r" THEN NoMatch
       ELSE [matched |-> TRUE, key |-> SubSeq(trimmed, 1, j - 1), rest |-> rest]

\* match[2].replace(/['"]/g, ''): every quote character is removed.
RemoveQuotes(s) == SelectSeq(s, LAMBDA c : c \notin {"'", QuoteChar})

\* if (!trimmed || trimmed.startsWith('#')) continue
Skipped(trimmed) == Len(trimmed) = 0 \/ trimmed[1] = "#"

\* The body of the for loop: obj after the line.
ScanLine(obj, line) ==
  LET trimmed == Trim(line) IN
  IF Skipped(trimmed) THEN obj
  ELSE LET m == Match(trimmed) IN
       IF ~m.matched THEN obj
       ELSE LET value == RemoveQuotes(m.rest) IN
            IF Len(value) > 0 THEN (m.key :> Str(value)) @@ obj ELSE obj

RECURSIVE ScanLines(_, _, _)
ScanLines(lines, i, obj) ==
  IF i > Len(lines) THEN obj
  ELSE ScanLines(lines, i + 1, ScanLine(obj, lines[i]))

parseConfig(input) ==
  LET r == JSONParse(input) IN
  IF r.ok THEN r.val
  ELSE Obj(ScanLines(Split(input, 1, <<>>), 1, <<>>))

(***************************************************************************)
(* Inputs of parseConfig: texts of up to MaxLines lines.                   *)
(***************************************************************************)
MaxLines == 2

LineKeys == {<<"a">>, <<"b">>}
LineColons == {<<":">>, <<":", " ">>}
LineValues ==
  { <<>>, <<"x">>, <<"y">>, <<"'", "x", "'">>, <<"x", "'", "y">>,
    <<QuoteChar, "x", " ", "y", QuoteChar>> }

Lines ==
  { k \o c \o v : k \in LineKeys, c \in LineColons, v \in LineValues }
    \cup { <<>>, <<" ">>, <<"#", "a", ":", "x">>, <<"h", "i">>, <<"a", " ", "x">>,
           <<"-", " ", "a", ":", "x">>, <<" ", "a", ":", "x", " ">>,
           <<"{", QuoteChar, "a", QuoteChar, ":">>,
           <<"{", QuoteChar, "a", QuoteChar, ":", QuoteChar, "x", QuoteChar, "}">>,
           <<"n", "u", "l", "l">>, <<"1", "2">>, <<QuoteChar, "x", QuoteChar>> }

RECURSIVE JoinLines(_, _)
JoinLines(lines, i) ==
  IF i > Len(lines) THEN <<>>
  ELSE (IF i > 1 THEN <<"\n">> ELSE <<>>) \o lines[i] \o JoinLines(lines, i + 1)

Texts == { JoinLines(ls, 1) : ls \in UNION {[1..n -> Lines] : n \in 1..MaxLines} }

InitParse ==
  /\ pc = "parse"
  /\ arg = NoArg
  /\ text \in Texts
  /\ ret = NoRet

ParseConfig ==
  /\ pc = "parse"
  /\ ret' = Returned(parseConfig(text))
  /\ pc' = "done"
  /\ UNCHANGED <<arg, text>>

NextParse == ParseConfig

SpecParse == InitParse /\ [][NextParse]_vars

(***************************************************************************)
(* Properties of parseConfig.                                              *)
(***************************************************************************)
Parsed == pc = "done"

StrictFails(input) == ~JSONParse(input).ok

\* The non-blank, non-comment lines of the input that match the flat
\* `<word-key>: <value>` pattern, as positions in the split input.
FlatLines(input) ==
  LET lines == Split(input, 1, <<>>) IN
  { i \in 1..Len(lines) : ~Skipped(Trim(lines[i])) /\ Match(Trim(lines[i])).matched }

\* C2: parseConfig returns null for every text that matches neither format:
\* not parseable as JSON and without a line matching the flat pattern.
C2_NullOnNeither ==
  (Parsed /\ StrictFails(text) /\ FlatLines(text) = {}) => ret.value = Null

\* A single layer of enclosing quotes stripped from a value.
StripEnclosingQuotes(s) ==
  IF Len(s) >= 2 /\ s[1] = s[Len(s)] /\ s[1] \in {"'", QuoteChar}
    THEN SubSeq(s, 2, Len(s) - 1)
  ELSE s

\* The mapping from each key with a matching line to the value of its last
\* matching line, enclosing quotes stripped.
LastWins(input) ==
  LET lines == Split(input, 1, <<>>)
      M(i) == Match(Trim(lines[i]))
      keys == { M(i).key : i \in FlatLines(input) }
      last(k) == CHOOSE i \in FlatLines(input) :
                   /\ M(i).key = k
                   /\ \A j \in FlatLines(input) : M(j).key = k => j <= i
  IN  [k \in keys |-> Str(StripEnclosingQuotes(M(last(k)).rest))]

\* C10: when strict parsing fails, the mapping returned associates each key
\* with the value of the last line matching the flat pattern for that key,
\* a single layer of enclosing quotes stripped.
C10_LastWins ==
  (Parsed /\ StrictFails(text)) => ret.value = Obj(LastWins(text))

(***************************************************************************)
(* Well-typed DashboardConfig values.                                      *)
(***************************************************************************)
K_dataSource == <<"d","a","t","a","S","o","u","r","c","e">>
K_url == <<"u","r","l">>
K_refreshInterval == <<"r","e","f","r","e","s","h","I","n","t","e","r","v","a","l">>
K_headers == <<"h","e","a","d","e","r","s">>
K_autoRefresh == <<"a","u","t","o","R","e","f","r","e","s","h">>
K_padding == <<"p","a","d","d","i","n","g">>

S_stat == <<"s","t","a","t">>
S_flex == <<"f","l","e","x">>
S_dark == <<"d","a","r","k">>
S_mock == <<"m","o","c","k">>

Components ==
  { Obj(K_type :> Str(S_stat) @@ K_config :> EmptyObj),
    Obj(K_id :> Str(<<"c","1">>) @@ K_type :> Str(S_table)
        @@ K_title :> Str(<<"T", QuoteChar, "s">>)
        @@ K_config :> Obj(<<"v">> :> Str(<<"0">>))),
    Obj(K_type :> Str(<<"t","e","x","t">>) @@ K_dataSource :> Str(<<"s">>)
        @@ K_config :> Obj(<<"n">> :> Num(10) @@ <<"o","n">> :> Bool(TRUE)
                           @@ <<"z">> :> Null
                           @@ <<"l">> :> Arr(<<Num(-1), Str(<<"a", Backslash>>)>>))) }

DataSources ==
  { Obj(K_id :> Str(<<"s">>) @@ K_type :> Str(S_rest)),
    Obj(K_id :> Str(<<"t">>) @@ K_type :> Str(S_mock)
        @@ K_url :> Str(<<"h",":","/","/","x">>)
        @@ K_refreshInterval :> Num(30000)
        @@ K_headers :> Obj(<<"h">> :> Str(<<"v">>))) }

Titles == {Str(<<"A">>), Str(<<QuoteChar, "b", " ">>), Str(<<Backslash, "\n", "n">>)}

Dashboards ==
  { MkObj(K_title :> ti @@ K_layout :> la @@ K_theme :> th @@ K_columns :> cl
          @@ K_components :> Arr(co)) :
      ti \in Titles, la \in {Str(S_grid), Str(S_flex)}, th \in {Absent, Str(S_dark)},
      cl \in {Absent, Num(12)}, co \in SeqsUpTo(Components, MaxComps) }

DataSourceLists == {Absent} \cup {Arr(a) : a \in SeqsUpTo(DataSources, MaxSources)}

SettingsValues ==
  {Absent, Obj(K_autoRefresh :> Bool(FALSE) @@ K_padding :> Num(-5))}

Configs ==
  { MkObj(K_dashboard :> da @@ K_dataSources :> ds @@ K_settings :> se) :
      da \in Dashboards, ds \in DataSourceLists, se \in SettingsValues }

(***************************************************************************)
(* exportAsJSON followed by parseConfig.                                   *)
(***************************************************************************)
InitJSON ==
  /\ pc = "export"
  /\ arg \in [t : {"exportAsJSON"}, config : Configs, pretty : BOOLEAN]
  /\ text = <<>>
  /\ ret = NoRet

ExportAsJSON ==
  /\ pc = "export"
  /\ text' = exportAsJSON(arg.config, arg.pretty)
  /\ pc' = "parse"
  /\ UNCHANGED <<arg, ret>>

NextJSON == ExportAsJSON \/ ParseConfig

SpecJSON == InitJSON /\ [][NextJSON]_vars

\* C3: for every well-typed config x, parseConfig(exportAsJSON(x, false))
\* equals x, and so does parseConfig(exportAsJSON(x, true)): the pretty flag
\* does not change the value read back.
C3_RoundTrip ==
  (pc = "done" /\ arg.t = "exportAsJSON") => ret = Returned(arg.config)

\* A pretty-printed config with components, data sources and a title that
\* needs escaping has gone through the round trip.
C3_Witness ==
  /\ pc = "done"
  /\ arg.t = "exportAsJSON"
  /\ arg.pretty
  /\ Len(arg.config.obj[K_dashboard].obj[K_components].arr) = MaxComps
  /\ Has(arg.config, K_dataSources)
  /\ ~Has(arg.config, K_settings)
  /\ arg.config.obj[K_dashboard].obj[K_title] = Str(<<Backslash, "\n", "n">>)
  /\ Len(text) > Len(exportAsJSON(arg.config, FALSE))

(***************************************************************************)
(* mergeConfigs.                                                           *)
(***************************************************************************)
\* a || b
Or(a, b) == IF Truthy(a) THEN a ELSE b

\* The properties {...x} copies: those of an object, none of undefined.
Spread(x) == IF x.t = "object" THEN x.obj ELSE <<>>

\* override.dashboard?.components
OptionalComponents(override) ==
  IF Nullish(Get(override, K_dashboard)) THEN Undef
  ELSE Get(Get(override, K_dashboard), K_components)

\* A variant that does not spread override.dashboard.
MergedDashboard_NoOverride(base, override) ==
  Obj((K_components :> Or(OptionalComponents(override),
                          Get(Get(base, K_dashboard), K_components)))
      @@ Spread(Get(base, K_dashboard)))

\* The dashboard property of the result.
MergedDashboard(base, override) ==
  Obj((K_components :> Or(OptionalComponents(override),
                          Get(Get(base, K_dashboard), K_components)))
      @@ Spread(Get(override, K_dashboard))
      @@ Spread(Get(base, K_dashboard)))

\* A variant that prefers base.dataSources.
MergedDataSources_BaseFirst(base, override) ==
  Or(Get(base, K_dataSources), Get(override, K_dataSources))

\* The dataSources property of the result.
MergedDataSources(base, override) ==
  Or(Get(override, K_dataSources), Get(base, K_dataSources))

\* The settings property of the result.
MergedSettings(base, override) ==
  Obj(Spread(Get(override, K_settings)) @@ Spread(Get(base, K_settings)))

mergeConfigs(base, override) ==
  Obj((K_dashboard :> MergedDashboard(base, override))
      @@ (K_dataSources :> MergedDataSources(base, override))
      @@ (K_settings :> MergedSettings(base, override))
      @@ Spread(base))

\* Partial<DashboardConfig> values: every property optional, a property may
\* be present and undefined.
PartialDashboards ==
  {Absent}
    \cup { MkObj(K_title :> ti @@ K_layout :> la @@ K_theme :> th @@ K_columns :> cl
                 @@ K_components :> co) :
             ti \in {Absent, Undef, Str(<<"B">>)}, la \in {Absent, Str(<<"s","t","a","c","k">>)},
             th \in {Absent, Str(<<"l","i","g","h","t">>)}, cl \in {Absent, Num(3)},
             co \in {Absent, Undef, Arr(<<>>),
                     Arr(<<Obj(K_type :> Str(S_stat) @@ K_config :> EmptyObj)>>)} }

Overrides ==
  { MkObj(K_dashboard :> da @@ K_dataSources :> ds @@ K_settings :> se) :
      da \in PartialDashboards, ds \in DataSourceLists,
      se \in {Absent, Obj(K_padding :> Num(1))} }

\* The bases: well-typed configs with one title and one layout.
Bases ==
  { c \in Configs :
      /\ c.obj[K_dashboard].obj[K_title] = Str(<<"A">>)
      /\ c.obj[K_dashboard].obj[K_layout] = Str(S_grid)
      /\ ~Has(c.obj[K_dashboard], K_columns)
      /\ \A i \in 1..Len(c.obj[K_dashboard].obj[K_components].arr) :
           ~Has(c.obj[K_dashboard].obj[K_components].arr[i], K_dataSource) }

InitMerge ==
  /\ pc = "merge"
  /\ arg \in [t : {"mergeConfigs"}, base : Bases, override : Overrides]
  /\ text = <<>>
  /\ ret = NoRet

MergeConfigs ==
  /\ pc = "merge"
  /\ ret' = Returned(mergeConfigs(arg.base, arg.override))
  /\ pc' = "done"
  /\ UNCHANGED <<arg, text>>

NextMerge == MergeConfigs

SpecMerge == InitMerge /\ [][NextMerge]_vars

(***************************************************************************)
(* Properties of mergeConfigs.                                             *)
(***************************************************************************)
Merged == pc = "done" /\ arg.t = "mergeConfigs"

\* C4, as stated: the result's dataSources is override.dataSources when
\* override supplies a non-empty sequence, and base.dataSources when
\* override.dataSources is absent or is an empty sequence.
C4_EmptyFallsBack ==
  Merged =>
    LET o == Get(arg.override, K_dataSources) IN
    Get(ret.value, K_dataSources)
      = IF IsArray(o) /\ Len(o.arr) > 0 THEN o ELSE Get(arg.base, K_dataSources)

\* C4, amended: the result's dataSources is override.dataSources whenever
\* override supplies a sequence, an empty one included, and base.dataSources
\* when override.dataSources is absent.
C4_DataSourcesRule ==
  Merged =>
    LET o == Get(arg.override, K_dataSources) IN
    Get(ret.value, K_dataSources)
      = IF IsArray(o) THEN o ELSE Get(arg.base, K_dataSources)

\* An empty override sequence has been merged over a base with data sources.
C4_Witness ==
  /\ Merged
  /\ Get(arg.override, K_dataSources) = Arr(<<>>)
  /\ IsArray(Get(arg.base, K_dataSources))
  /\ Len(Get(arg.base, K_dataSources).arr) > 0
  /\ Get(ret.value, K_dataSources) = Arr(<<>>)

ScalarKeys == {K_title, K_layout, K_theme, K_columns}

\* C5: each of title, layout, theme and columns of the result is
\* override.dashboard's value when override.dashboard has the key and
\* base.dashboard's otherwise; the result's components are override's
\* whenever override supplies a sequence, even an empty one, and base's
\* otherwise.
C5_DashboardRule ==
  Merged =>
    LET od == Get(arg.override, K_dashboard)
        bd == Get(arg.base, K_dashboard)
        rd == Get(ret.value, K_dashboard)
    IN  /\ \A k \in ScalarKeys :
             /\ Get(rd, k) = IF Has(od, k) THEN od.obj[k] ELSE Get(bd, k)
             /\ Has(rd, k) <=> (Has(od, k) \/ Has(bd, k))
        /\ Get(rd, K_components)
             = IF IsArray(Get(od, K_components)) THEN Get(od, K_components)
               ELSE Get(bd, K_components)

\* The merge scenario: an override with a title and neither layout nor
\* components has been merged over a base with components.
C5_Witness ==
  /\ Merged
  /\ Has(Get(arg.override, K_dashboard), K_title)
  /\ Get(Get(arg.override, K_dashboard), K_title) = Str(<<"B">>)
  /\ ~Has(Get(arg.override, K_dashboard), K_layout)
  /\ ~Has(Get(arg.override, K_dashboard), K_components)
  /\ Len(Get(Get(arg.base, K_dashboard), K_components).arr) = MaxComps
  /\ Get(Get(ret.value, K_dashboard), K_title) = Str(<<"B">>)
  /\ Get(Get(ret.value, K_dashboard), K_layout) = Str(S_grid)

====
